---- MODULE Spec2Model ----
(***************************************************************************)
(* Tagged-value codec of bc-components: CID, Signature and URI.            *)
(*                                                                         *)
(* A value is produced (encoded by one of the types, or handed in from     *)
(* outside as an arbitrary structured value), lies "on the wire", and is   *)
(* then decoded by one of the types.  The constructors that take raw       *)
(* bytes or raw strings are modelled as single-step operations.            *)
(*                                                                         *)
(* Byte-strings are sequences of integers 0..255, text strings are         *)
(* sequences of one-character strings, and a structured (CBOR) value is a  *)
(* record whose field `case` names its CBORCase.                           *)
(***************************************************************************)
EXTENDS Integers, Sequences, FiniteSets, TLC

(***************************************************************************)
(* Program constants.                                                      *)
(***************************************************************************)
SCHNORR_SIGNATURE_SIZE == 64
ECDSA_SIGNATURE_SIZE == 64
CID_LENGTH == 32

\* tags::SIGNATURE, as printed by the diagnostic notation in the tests.
TAG_SIGNATURE == 40020
\* tags_registry::LEAF, a registered tag that none of the three types declares.
TAG_LEAF == 24
\* The registry module is not among the sources; the three values below are
\* the registry's assignments and are only required to be pairwise distinct
\* and distinct from the two above.
TAG_URI == 32
TAG_CID == 40012
TAG_SSH_TEXT_SIGNATURE == 40802

(***************************************************************************)
(* Bounds of the input universe.                                           *)
(***************************************************************************)
\* byte-string lengths lie within MaxDelta of 0, CID_LENGTH and the two
\* signature sizes
MaxDelta == 1
\* byte-strings are ramps b, b+1, b+2, ... starting at b \in 0..MaxByte
MaxByte == 1
\* unsigned integers 0..MaxUnsigned
MaxUnsigned == 2
\* text strings have at most MaxStrLen characters
MaxStrLen == 3
\* sequences have at most MaxArity elements
MaxArity == 3

(***************************************************************************)
(* Results: Ok(value), Err(message) and a panic (an `unwrap` on an error). *)
(***************************************************************************)
Ok(v) == [kind |-> "ok", val |-> v]
Err(e) == [kind |-> "err", err |-> e]
Panic == [kind |-> "panic"]
None == [kind |-> "none"]
Some(v) == [kind |-> "some", val |-> v]

(***************************************************************************)
(* Structured values (dcbor's CBORCase).                                   *)
(***************************************************************************)
to_byte_string(data) == [case |-> "ByteString", bytes |-> data]
Unsigned(n) == [case |-> "Unsigned", n |-> n]
Text(s) == [case |-> "Text", s |-> s]
Array(elements) == [case |-> "Array", elements |-> elements]
to_tagged_value(tag, item) == [case |-> "Tagged", tag |-> tag, item |-> item]

\* The generic wrapping step: the first declared tag around the untagged value.
tagged_cbor(tags, untagged) == to_tagged_value(tags[1], untagged)

\* The generic unwrapping step: the inner value when the outer tag is one of
\* the declared tags, a tag-mismatch error for any other tag, a type error
\* for a value that is not tagged at all.
from_tagged_cbor(tags, cbor) ==
    IF cbor.case = "Tagged"
    THEN IF \E i \in 1..Len(tags) : tags[i] = cbor.tag
         THEN Ok(cbor.item)
         ELSE Err("Wrong tag")
    ELSE Err("Wrong type")

(***************************************************************************)
(* CID                                                                     *)
(***************************************************************************)
CID_from_data(data) == [data |-> data]

\* faulty variant: the length test only rejects inputs that are too short
CID_from_data_ref_short(data) ==
    IF Len(data) < CID_LENGTH
    THEN None
    ELSE Some(CID_from_data([i \in 1..CID_LENGTH |-> data[i]]))

CID_from_data_ref(data) ==
    IF Len(data) # CID_LENGTH
    THEN None
    ELSE Some(CID_from_data([i \in 1..CID_LENGTH |-> data[i]]))

CID_data(cid) == cid.data

CID_cbor_tags == <<TAG_CID>>

CID_untagged_cbor(cid) == to_byte_string(CID_data(cid))

CID_cbor(cid) == tagged_cbor(CID_cbor_tags, CID_untagged_cbor(cid))

\* Bytes::from_cbor: the bytes of a byte-string, an error for anything else
Bytes_from_cbor(cbor) ==
    IF cbor.case = "ByteString" THEN Ok(cbor.bytes) ELSE Err("Wrong type")

CID_from_untagged_cbor(untagged_cbor) ==
    LET bytes == Bytes_from_cbor(untagged_cbor) IN
    IF bytes.kind # "ok"
    THEN bytes
    ELSE LET instance == CID_from_data_ref(bytes.val) IN
         IF instance.kind = "none"
         THEN Err("Invalid format")
         ELSE Ok(instance.val)

CID_from_cbor(cbor) ==
    LET inner == from_tagged_cbor(CID_cbor_tags, cbor) IN
    IF inner.kind # "ok" THEN inner ELSE CID_from_untagged_cbor(inner.val)

(***************************************************************************)
(* URI                                                                     *)
(***************************************************************************)
IsAlpha(c) == c \in {"a"}
IsDigit(c) == c \in {"1"}
IsSpace(c) == c \in {" "}

RECURSIVE TrimStart(_)
TrimStart(s) ==
    IF s # <<>> /\ IsSpace(Head(s)) THEN TrimStart(Tail(s)) ELSE s

RECURSIVE TrimEnd(_)
TrimEnd(s) ==
    IF s # <<>> /\ IsSpace(s[Len(s)])
    THEN TrimEnd(SubSeq(s, 1, Len(s) - 1))
    ELSE s

\* Url::parse without a base URL, on strings over the alphabet Chars below:
\* leading and trailing spaces are dropped, then the input must start with a
\* scheme (a letter, then letters, digits, '+', '-' or '.', up to a ':').
\* What follows the scheme of a non-special URL without '/' is an opaque
\* path, in which every character is accepted.
Url_parse_is_ok(input) ==
    LET s == TrimEnd(TrimStart(input)) IN
    \E k \in 2..Len(s) :
        /\ s[k] = ":"
        /\ IsAlpha(s[1])
        /\ \A i \in 2..(k - 1) : IsAlpha(s[i]) \/ IsDigit(s[i])

\* faulty variant: the doc comment's "no validation is performed on the string"
URI_new_unvalidated(uri) == Ok([uri |-> uri])

URI_new(uri) ==
    IF Url_parse_is_ok(uri) THEN Ok([uri |-> uri]) ELSE Err("Invalid URI")

URI_from_str(s) == URI_new(s)

\* From<&str> and From<String>: URI::new(uri).unwrap()
unwrap(result) == IF result.kind = "ok" THEN result ELSE Panic

URI_from_str_ref(uri) == unwrap(URI_new(uri))

URI_from_string(uri) == unwrap(URI_new(uri))

\* faulty variant: the type also declares the Signature tag
URI_cbor_tags_two == <<TAG_URI, TAG_SIGNATURE>>

URI_cbor_tags == <<TAG_URI>>

URI_untagged_cbor(uri) == Text(uri.uri)

URI_into_cbor(uri) == tagged_cbor(URI_cbor_tags, URI_untagged_cbor(uri))

\* TryFrom<CBOR> for String
String_try_from(cbor) ==
    IF cbor.case = "Text" THEN Ok(cbor.s) ELSE Err("Wrong type")

URI_from_untagged_cbor(cbor) ==
    LET uri == String_try_from(cbor) IN
    IF uri.kind # "ok" THEN uri ELSE URI_new(uri.val)

URI_try_from(cbor) ==
    LET inner == from_tagged_cbor(URI_cbor_tags, cbor) IN
    IF inner.kind # "ok" THEN inner ELSE URI_from_untagged_cbor(inner.val)

(***************************************************************************)
(* State.                                                                  *)
(*   ssh   whether the build has the "ssh" feature                         *)
(*   pc    "idle", "wire" (a structured value awaits decoding), "done"     *)
(*   op    the operation that ran last                                     *)
(*   sent  the domain value that was encoded onto the wire and the         *)
(*         encoder that did it, if any                                     *)
(*   wire  the structured value awaiting decoding / last decoded           *)
(*   arg   the raw input of the constructor that ran last                  *)
(*   res   the result of the decoder or constructor that ran last          *)
(***************************************************************************)
VARIABLES ssh, pc, op, sent, wire, arg, res

vars == <<ssh, pc, op, sent, wire, arg, res>>

(***************************************************************************)
(* Signature                                                               *)
(***************************************************************************)
Signature_schnorr_from_data(data, tag) ==
    [variant |-> "Schnorr", sig |-> data, tag |-> tag]

\* faulty variant: the size test only rejects inputs that are too short, longer
\* inputs are truncated
Signature_schnorr_from_data_ref_short(data, tag) ==
    IF Len(data) < SCHNORR_SIGNATURE_SIZE
    THEN Err("Invalid Schnorr signature size")
    ELSE Ok(Signature_schnorr_from_data(
                [i \in 1..SCHNORR_SIGNATURE_SIZE |-> data[i]], tag))

Signature_schnorr_from_data_ref(data, tag) ==
    IF Len(data) # SCHNORR_SIGNATURE_SIZE
    THEN Err("Invalid Schnorr signature size")
    ELSE Ok(Signature_schnorr_from_data(
                [i \in 1..SCHNORR_SIGNATURE_SIZE |-> data[i]], tag))

Signature_ecdsa_from_data(data) == [variant |-> "ECDSA", sig |-> data]

\* faulty variant: the size test only rejects inputs that are too long, shorter
\* inputs are padded with the zeroes of the fresh array
Signature_ecdsa_from_data_ref_long(data) ==
    IF Len(data) > ECDSA_SIGNATURE_SIZE
    THEN Err("Invalid ECDSA signature size")
    ELSE Ok(Signature_ecdsa_from_data(
                [i \in 1..ECDSA_SIGNATURE_SIZE |->
                    IF i <= Len(data) THEN data[i] ELSE 0]))

Signature_ecdsa_from_data_ref(data) ==
    IF Len(data) # ECDSA_SIGNATURE_SIZE
    THEN Err("Invalid ECDSA signature size")
    ELSE Ok(Signature_ecdsa_from_data(
                [i \in 1..ECDSA_SIGNATURE_SIZE |-> data[i]]))

\* faulty variant: the type also declares the URI tag
Signature_cbor_tags_two == <<TAG_SIGNATURE, TAG_URI>>

Signature_cbor_tags == <<TAG_SIGNATURE>>

\* faulty variant: ECDSA is written with the discriminant 0
Signature_untagged_cbor_disc0(self) ==
    IF self.variant = "Schnorr"
    THEN IF self.tag = <<>>
         THEN to_byte_string(self.sig)
         ELSE Array(<<to_byte_string(self.sig), to_byte_string(self.tag)>>)
    ELSE Array(<<Unsigned(0), to_byte_string(self.sig)>>)

\* faulty variant: Schnorr is always written as a 2-element sequence
Signature_untagged_cbor_pair(self) ==
    IF self.variant = "Schnorr"
    THEN Array(<<to_byte_string(self.sig), to_byte_string(self.tag)>>)
    ELSE Array(<<Unsigned(1), to_byte_string(self.sig)>>)

Signature_untagged_cbor(self) ==
    IF self.variant = "Schnorr"
    THEN IF self.tag = <<>>
         THEN to_byte_string(self.sig)
         ELSE Array(<<to_byte_string(self.sig), to_byte_string(self.tag)>>)
    ELSE Array(<<Unsigned(1), to_byte_string(self.sig)>>)

Signature_into_cbor(value) ==
    tagged_cbor(Signature_cbor_tags, Signature_untagged_cbor(value))

\* CBOR::try_into_text
try_into_text(item) ==
    IF item.case = "Text" THEN Ok(item.s) ELSE Err("Wrong type")

\* SshSig::from_pem.  A PEM document starts with an encapsulation boundary
\* "-----BEGIN ...-----"; no text of the bounded universe is long enough to
\* hold one, so the parse fails on every text the model feeds it.
SshSig_from_pem(string) == Err("PEM")

\* faulty variant: any sequence of at least two elements is taken as a pair
Signature_from_untagged_cbor_arity(cbor) ==
    CASE cbor.case = "ByteString" ->
            Signature_schnorr_from_data_ref(cbor.bytes, <<>>)
      [] cbor.case = "Array" ->
            IF Len(cbor.elements) >= 2
            THEN LET ele_0 == cbor.elements[1]
                     ele_1 == cbor.elements[2]
                 IN  CASE ele_0.case = "ByteString" /\ ele_1.case = "ByteString" ->
                            Signature_schnorr_from_data_ref(ele_0.bytes, ele_1.bytes)
                       [] ele_0 = Unsigned(1) /\ ele_1.case = "ByteString" ->
                            Signature_ecdsa_from_data_ref(ele_1.bytes)
                       [] OTHER -> Err("Invalid signature format")
            ELSE Err("Invalid signature format")
      [] cbor.case = "Tagged" /\ ssh ->
            IF cbor.tag = TAG_SSH_TEXT_SIGNATURE
            THEN LET string == try_into_text(cbor.item) IN
                 IF string.kind # "ok" THEN string ELSE SshSig_from_pem(string.val)
            ELSE Err("Invalid signature format")
      [] OTHER -> Err("Invalid signature format")

\* faulty variant: the auxiliary tag of the 2-element Schnorr form is dropped
Signature_from_untagged_cbor_notag(cbor) ==
    CASE cbor.case = "ByteString" ->
            Signature_schnorr_from_data_ref(cbor.bytes, <<>>)
      [] cbor.case = "Array" ->
            IF Len(cbor.elements) = 2
            THEN LET ele_0 == cbor.elements[1]
                     ele_1 == cbor.elements[2]
                 IN  CASE ele_0.case = "ByteString" /\ ele_1.case = "ByteString" ->
                            Signature_schnorr_from_data_ref(ele_0.bytes, <<>>)
                       [] ele_0 = Unsigned(1) /\ ele_1.case = "ByteString" ->
                            Signature_ecdsa_from_data_ref(ele_1.bytes)
                       [] OTHER -> Err("Invalid signature format")
            ELSE Err("Invalid signature format")
      [] cbor.case = "Tagged" /\ ssh ->
            IF cbor.tag = TAG_SSH_TEXT_SIGNATURE
            THEN LET string == try_into_text(cbor.item) IN
                 IF string.kind # "ok" THEN string ELSE SshSig_from_pem(string.val)
            ELSE Err("Invalid signature format")
      [] OTHER -> Err("Invalid signature format")

\* faulty variant: every unsigned discriminant selects ECDSA
Signature_from_untagged_cbor_anydisc(cbor) ==
    CASE cbor.case = "ByteString" ->
            Signature_schnorr_from_data_ref(cbor.bytes, <<>>)
      [] cbor.case = "Array" ->
            IF Len(cbor.elements) = 2
            THEN LET ele_0 == cbor.elements[1]
                     ele_1 == cbor.elements[2]
                 IN  CASE ele_0.case = "ByteString" /\ ele_1.case = "ByteString" ->
                            Signature_schnorr_from_data_ref(ele_0.bytes, ele_1.bytes)
                       [] ele_0.case = "Unsigned" /\ ele_1.case = "ByteString" ->
                            Signature_ecdsa_from_data_ref(ele_1.bytes)
                       [] OTHER -> Err("Invalid signature format")
            ELSE Err("Invalid signature format")
      [] cbor.case = "Tagged" /\ ssh ->
            IF cbor.tag = TAG_SSH_TEXT_SIGNATURE
            THEN LET string == try_into_text(cbor.item) IN
                 IF string.kind # "ok" THEN string ELSE SshSig_from_pem(string.val)
            ELSE Err("Invalid signature format")
      [] OTHER -> Err("Invalid signature format")

\* `match cbor.into_case()`: a byte-string, an array (only arity 2 is looked
\* into; every path that does not return falls through to the bail), with
\* the "ssh" feature a tagged value, and the catch-all arm.
Signature_from_untagged_cbor(cbor) ==
    CASE cbor.case = "ByteString" ->
            Signature_schnorr_from_data_ref(cbor.bytes, <<>>)
      [] cbor.case = "Array" ->
            IF Len(cbor.elements) = 2
            THEN LET ele_0 == cbor.elements[1]
                     ele_1 == cbor.elements[2]
                 IN  CASE ele_0.case = "ByteString" /\ ele_1.case = "ByteString" ->
                            Signature_schnorr_from_data_ref(ele_0.bytes, ele_1.bytes)
                       [] ele_0 = Unsigned(1) /\ ele_1.case = "ByteString" ->
                            Signature_ecdsa_from_data_ref(ele_1.bytes)
                       [] OTHER -> Err("Invalid signature format")
            ELSE Err("Invalid signature format")
      [] cbor.case = "Tagged" /\ ssh ->
            IF cbor.tag = TAG_SSH_TEXT_SIGNATURE
            THEN LET string == try_into_text(cbor.item) IN
                 IF string.kind # "ok" THEN string ELSE SshSig_from_pem(string.val)
            ELSE Err("Invalid signature format")
      [] OTHER -> Err("Invalid signature format")

Signature_try_from(cbor) ==
    LET inner == from_tagged_cbor(Signature_cbor_tags, cbor) IN
    IF inner.kind # "ok" THEN inner ELSE Signature_from_untagged_cbor(inner.val)

(***************************************************************************)
(* The input universe.                                                     *)
(***************************************************************************)
Max(a, b) == IF a >= b THEN a ELSE b

Centers == {0, CID_LENGTH, SCHNORR_SIGNATURE_SIZE, ECDSA_SIGNATURE_SIZE}

Lens ==
    { n \in 0..(Max(SCHNORR_SIGNATURE_SIZE, ECDSA_SIGNATURE_SIZE) + MaxDelta) :
        \E c \in Centers : n - c <= MaxDelta /\ c - n <= MaxDelta }

\* the bytes b, b+1, ..., b+n-1 (mod 256)
Ramp(n, b) == [i \in 1..n |-> (b + i - 1) % 256]

ByteSeqs == { Ramp(n, b) : n \in Lens, b \in 0..MaxByte }

Chars == {"a", "1", ":", " "}

Strings == UNION { [1..n -> Chars] : n \in 0..MaxStrLen }

ByteStrings == { to_byte_string(d) : d \in ByteSeqs }
Unsigneds == { Unsigned(n) : n \in 0..MaxUnsigned }
Texts == { Text(s) : s \in Strings }

\* the elements of 2-element sequences
Elements ==
    ByteStrings \cup Unsigneds
    \cup { Text(<<"a", ":">>), Array(<<>>),
           to_tagged_value(TAG_SIGNATURE,
                           to_byte_string(Ramp(SCHNORR_SIGNATURE_SIZE, 0))) }

\* the elements of sequences of every other arity: a well-formed payload and
\* the ECDSA discriminant
FewElements ==
    {to_byte_string(Ramp(SCHNORR_SIGNATURE_SIZE, 0)), Unsigned(1)}

Arrays ==
    { Array(<<e0, e1>>) : e0 \in Elements, e1 \in Elements }
    \cup { Array(e) : e \in UNION { [1..n -> FewElements] :
                                      n \in (0..MaxArity) \ {2} } }

Tags == {TAG_SIGNATURE, TAG_URI, TAG_CID, TAG_SSH_TEXT_SIGNATURE, TAG_LEAF}

\* values without a tag, and nested tagged values as a Signature may hold
Plain == ByteStrings \cup Unsigneds \cup Texts \cup Arrays

Nested ==
    { to_tagged_value(t, i) :
        t \in Tags, i \in {Text(<<>>), Text(<<"a", ":">>), Unsigned(1),
                           to_byte_string(Ramp(SCHNORR_SIGNATURE_SIZE, 0))} }

CBORs == Plain \cup Nested \cup { to_tagged_value(t, i) : t \in Tags, i \in Plain }

\* the domain values that exist
Signatures ==
    { Signature_schnorr_from_data(Ramp(SCHNORR_SIGNATURE_SIZE, b), tag) :
        b \in 0..MaxByte, tag \in ByteSeqs }
    \cup { Signature_ecdsa_from_data(Ramp(ECDSA_SIGNATURE_SIZE, b)) :
             b \in 0..MaxByte }

CIDs == { CID_from_data(Ramp(CID_LENGTH, b)) : b \in 0..MaxByte }

URIs == { URI_new(s).val : s \in { x \in Strings : URI_new(x).kind = "ok" } }

(***************************************************************************)
(* Actions.                                                                *)
(***************************************************************************)
Init ==
    /\ ssh \in BOOLEAN
    /\ pc = "idle"
    /\ op = "none"
    /\ sent = None
    /\ wire = None
    /\ arg = None
    /\ res = None

\* The encoders put a value on the wire, the decoders take the value on the
\* wire, the constructors run on raw input.

\* From<Signature> for CBOR
SignatureIntoCBOR ==
    /\ pc = "idle"
    /\ \E v \in Signatures :
           /\ pc' = "wire"
           /\ op' = "Signature::into"
           /\ sent' = [kind |-> "some", by |-> "Signature::into", val |-> v]
           /\ wire' = Signature_into_cbor(v)
           /\ UNCHANGED <<ssh, arg, res>>

\* CBORTaggedEncodable for Signature
SignatureUntaggedCbor ==
    /\ pc = "idle"
    /\ \E v \in Signatures :
           /\ pc' = "wire"
           /\ op' = "Signature::untagged_cbor"
           /\ sent' = [kind |-> "some", by |-> "Signature::untagged_cbor", val |-> v]
           /\ wire' = Signature_untagged_cbor(v)
           /\ UNCHANGED <<ssh, arg, res>>

\* From<URI> for CBOR
URIIntoCBOR ==
    /\ pc = "idle"
    /\ \E u \in URIs :
           /\ pc' = "wire"
           /\ op' = "URI::into"
           /\ sent' = [kind |-> "some", by |-> "URI::into", val |-> u]
           /\ wire' = URI_into_cbor(u)
           /\ UNCHANGED <<ssh, arg, res>>

\* CBORTaggedEncodable for URI
URIUntaggedCbor ==
    /\ pc = "idle"
    /\ \E u \in URIs :
           /\ pc' = "wire"
           /\ op' = "URI::untagged_cbor"
           /\ sent' = [kind |-> "some", by |-> "URI::untagged_cbor", val |-> u]
           /\ wire' = URI_untagged_cbor(u)
           /\ UNCHANGED <<ssh, arg, res>>

\* CBOREncodable for CID
CIDCbor ==
    /\ pc = "idle"
    /\ \E c \in CIDs :
           /\ pc' = "wire"
           /\ op' = "CID::cbor"
           /\ sent' = [kind |-> "some", by |-> "CID::cbor", val |-> c]
           /\ wire' = CID_cbor(c)
           /\ UNCHANGED <<ssh, arg, res>>

\* CBORTaggedEncodable for CID
CIDUntaggedCbor ==
    /\ pc = "idle"
    /\ \E c \in CIDs :
           /\ pc' = "wire"
           /\ op' = "CID::untagged_cbor"
           /\ sent' = [kind |-> "some", by |-> "CID::untagged_cbor", val |-> c]
           /\ wire' = CID_untagged_cbor(c)
           /\ UNCHANGED <<ssh, arg, res>>

\* a structured value arrives from outside
Receive ==
    /\ pc = "idle"
    /\ \E c \in CBORs :
           /\ pc' = "wire"
           /\ op' = "receive"
           /\ sent' = None
           /\ wire' = c
           /\ UNCHANGED <<ssh, arg, res>>

\* TryFrom<CBOR> for Signature
SignatureTryFrom ==
    /\ pc = "wire"
    /\ pc' = "done"
    /\ op' = "Signature::try_from"
    /\ res' = Signature_try_from(wire)
    /\ UNCHANGED <<ssh, sent, wire, arg>>

\* CBORTaggedDecodable for Signature
SignatureFromUntaggedCbor ==
    /\ pc = "wire"
    /\ pc' = "done"
    /\ op' = "Signature::from_untagged_cbor"
    /\ res' = Signature_from_untagged_cbor(wire)
    /\ UNCHANGED <<ssh, sent, wire, arg>>

\* TryFrom<CBOR> for URI
URITryFrom ==
    /\ pc = "wire"
    /\ pc' = "done"
    /\ op' = "URI::try_from"
    /\ res' = URI_try_from(wire)
    /\ UNCHANGED <<ssh, sent, wire, arg>>

\* CBORTaggedDecodable for URI
URIFromUntaggedCbor ==
    /\ pc = "wire"
    /\ pc' = "done"
    /\ op' = "URI::from_untagged_cbor"
    /\ res' = URI_from_untagged_cbor(wire)
    /\ UNCHANGED <<ssh, sent, wire, arg>>

\* CBORDecodable for CID
CIDFromCbor ==
    /\ pc = "wire"
    /\ pc' = "done"
    /\ op' = "CID::from_cbor"
    /\ res' = CID_from_cbor(wire)
    /\ UNCHANGED <<ssh, sent, wire, arg>>

\* CBORTaggedDecodable for CID
CIDFromUntaggedCbor ==
    /\ pc = "wire"
    /\ pc' = "done"
    /\ op' = "CID::from_untagged_cbor"
    /\ res' = CID_from_untagged_cbor(wire)
    /\ UNCHANGED <<ssh, sent, wire, arg>>

\* Signature::schnorr_from_data_ref
SchnorrFromDataRef ==
    /\ pc = "idle"
    /\ \E data \in ByteSeqs, tag \in ByteSeqs :
           /\ pc' = "done"
           /\ op' = "Signature::schnorr_from_data_ref"
           /\ arg' = [data |-> data, tag |-> tag]
           /\ res' = Signature_schnorr_from_data_ref(data, tag)
           /\ sent' = None
           /\ wire' = None
           /\ UNCHANGED ssh

\* Signature::ecdsa_from_data_ref
EcdsaFromDataRef ==
    /\ pc = "idle"
    /\ \E data \in ByteSeqs :
           /\ pc' = "done"
           /\ op' = "Signature::ecdsa_from_data_ref"
           /\ arg' = [data |-> data]
           /\ res' = Signature_ecdsa_from_data_ref(data)
           /\ sent' = None
           /\ wire' = None
           /\ UNCHANGED ssh

\* CID::from_data_ref
CIDFromDataRef ==
    /\ pc = "idle"
    /\ \E data \in ByteSeqs :
           /\ pc' = "done"
           /\ op' = "CID::from_data_ref"
           /\ arg' = [data |-> data]
           /\ res' = CID_from_data_ref(data)
           /\ sent' = None
           /\ wire' = None
           /\ UNCHANGED ssh

\* URI::new
URINew ==
    /\ pc = "idle"
    /\ \E s \in Strings :
           /\ pc' = "done"
           /\ op' = "URI::new"
           /\ arg' = [s |-> s]
           /\ res' = URI_new(s)
           /\ sent' = None
           /\ wire' = None
           /\ UNCHANGED ssh

\* FromStr for URI
URIFromStr ==
    /\ pc = "idle"
    /\ \E s \in Strings :
           /\ pc' = "done"
           /\ op' = "URI::from_str"
           /\ arg' = [s |-> s]
           /\ res' = URI_from_str(s)
           /\ sent' = None
           /\ wire' = None
           /\ UNCHANGED ssh

\* From<&str> for URI
URIFromStrRef ==
    /\ pc = "idle"
    /\ \E s \in Strings :
           /\ pc' = "done"
           /\ op' = "URI::from(&str)"
           /\ arg' = [s |-> s]
           /\ res' = URI_from_str_ref(s)
           /\ sent' = None
           /\ wire' = None
           /\ UNCHANGED ssh

\* From<String> for URI
URIFromString ==
    /\ pc = "idle"
    /\ \E s \in Strings :
           /\ pc' = "done"
           /\ op' = "URI::from(String)"
           /\ arg' = [s |-> s]
           /\ res' = URI_from_string(s)
           /\ sent' = None
           /\ wire' = None
           /\ UNCHANGED ssh

\* the result is dropped
Reset ==
    /\ pc = "done"
    /\ pc' = "idle"
    /\ op' = "none"
    /\ sent' = None
    /\ wire' = None
    /\ arg' = None
    /\ res' = None
    /\ UNCHANGED ssh

Next ==
    \/ SignatureIntoCBOR
    \/ SignatureUntaggedCbor
    \/ URIIntoCBOR
    \/ URIUntaggedCbor
    \/ CIDCbor
    \/ CIDUntaggedCbor
    \/ Receive
    \/ SignatureTryFrom
    \/ SignatureFromUntaggedCbor
    \/ URITryFrom
    \/ URIFromUntaggedCbor
    \/ CIDFromCbor
    \/ CIDFromUntaggedCbor
    \/ SchnorrFromDataRef
    \/ EcdsaFromDataRef
    \/ CIDFromDataRef
    \/ URINew
    \/ URIFromStr
    \/ URIFromStrRef
    \/ URIFromString
    \/ Reset

Spec == Init /\ [][Next]_vars

(***************************************************************************)
(* Properties.                                                             *)
(***************************************************************************)
IsErr(r) == r.kind = "err"

InvalidSignatureFormat == [kind |-> "err", err |-> "Invalid signature format"]

\* C1: a Signature (Schnorr with or without auxiliary tag, ECDSA) that was
\* encoded with its tag and is decoded by the tagged decoder comes back equal:
\* same variant, same payload, same auxiliary tag.
C1_SignatureRoundTrip ==
    (/\ pc = "done"
     /\ op = "Signature::try_from"
     /\ sent.kind = "some"
     /\ sent.by = "Signature::into")
    => res = [kind |-> "ok", val |-> sent.val]

C1_Witness ==
    /\ pc = "done"
    /\ op = "Signature::try_from"
    /\ sent.kind = "some"
    /\ sent.by = "Signature::into"
    /\ sent.val.variant = "Schnorr"
    /\ sent.val.tag # <<>>
    /\ res.kind = "ok"

\* C2: the untagged decoder turns a bare byte-string b into Schnorr with
\* payload b and empty auxiliary tag exactly when b has the Schnorr size, and
\* into an error for every other length.
C2_BareByteString ==
    (/\ pc = "done"
     /\ op = "Signature::from_untagged_cbor"
     /\ wire.case = "ByteString")
    => IF Len(wire.bytes) = SCHNORR_SIGNATURE_SIZE
       THEN res = [kind |-> "ok",
                   val |-> [variant |-> "Schnorr", sig |-> wire.bytes,
                            tag |-> <<>>]]
       ELSE IsErr(res)

C2_Witness ==
    /\ pc = "done"
    /\ op = "Signature::from_untagged_cbor"
    /\ wire.case = "ByteString"
    /\ Len(wire.bytes) = SCHNORR_SIGNATURE_SIZE + 1
    /\ IsErr(res)

\* C3: the untagged decoder turns the sequence [1, b] into ECDSA with payload
\* b exactly when b has the ECDSA size; with any other length (33 bytes, say)
\* it fails although the discriminant matches.
C3_EcdsaPair ==
    (/\ pc = "done"
     /\ op = "Signature::from_untagged_cbor"
     /\ wire.case = "Array"
     /\ Len(wire.elements) = 2
     /\ wire.elements[1] = [case |-> "Unsigned", n |-> 1]
     /\ wire.elements[2].case = "ByteString")
    => IF Len(wire.elements[2].bytes) = ECDSA_SIGNATURE_SIZE
       THEN res = [kind |-> "ok",
                   val |-> [variant |-> "ECDSA",
                            sig |-> wire.elements[2].bytes]]
       ELSE IsErr(res)

C3_Witness ==
    /\ pc = "done"
    /\ op = "Signature::from_untagged_cbor"
    /\ wire.case = "Array"
    /\ Len(wire.elements) = 2
    /\ wire.elements[1] = [case |-> "Unsigned", n |-> 1]
    /\ wire.elements[2].case = "ByteString"
    /\ Len(wire.elements[2].bytes) = 33
    /\ IsErr(res)

\* the tagged encoder of each type, the tagged decoder of each type, and the
\* tag the registry assigns to the type
EncoderTag == [e \in {"Signature::into", "URI::into", "CID::cbor"} |->
                 CASE e = "Signature::into" -> TAG_SIGNATURE
                   [] e = "URI::into" -> TAG_URI
                   [] e = "CID::cbor" -> TAG_CID]

DecoderTag == [d \in {"Signature::try_from", "URI::try_from", "CID::from_cbor"} |->
                 CASE d = "Signature::try_from" -> TAG_SIGNATURE
                   [] d = "URI::try_from" -> TAG_URI
                   [] d = "CID::from_cbor" -> TAG_CID]

\* C4: for CID, Signature and URI, the tagged encoding carries the type's
\* tag as its outer tag, and the tagged decoder fails on every value whose
\* outer tag is another one, whatever is inside.
C4_TagStability ==
    /\ (pc = "wire" /\ op \in DOMAIN EncoderTag)
       => (wire.case = "Tagged" /\ wire.tag = EncoderTag[op])
    /\ (/\ pc = "done"
        /\ op \in DOMAIN DecoderTag
        /\ wire.case = "Tagged"
        /\ wire.tag # DecoderTag[op])
       => IsErr(res)

C4_Witness ==
    /\ pc = "done"
    /\ op = "Signature::try_from"
    /\ wire.case = "Tagged"
    /\ wire.tag = TAG_URI
    /\ Signature_from_untagged_cbor(wire.item).kind = "ok"
    /\ IsErr(res)

URIConstructors ==
    {"URI::new", "URI::from_str", "URI::from(&str)", "URI::from(String)"}

URIDecoders == {"URI::try_from", "URI::from_untagged_cbor"}

\* the text a URI decoder extracts from the value on the wire, if it gets
\* that far
HasURIText ==
    \/ op = "URI::from_untagged_cbor" /\ wire.case = "Text"
    \/ /\ op = "URI::try_from"
       /\ wire.case = "Tagged"
       /\ wire.tag = TAG_URI
       /\ wire.item.case = "Text"

URIText == IF op = "URI::try_from" THEN wire.item.s ELSE wire.s

C6_CIDLength ==
    /\ (pc = "done" /\ op = "CID::from_data_ref")
       => IF Len(arg.data) = 32
          THEN res = [kind |-> "some", val |-> [data |-> arg.data]]
          ELSE res = [kind |-> "none"]
    /\ (pc = "done" /\ op = "CID::from_untagged_cbor")
       => IF wire.case = "ByteString"
          THEN IF Len(wire.bytes) = 32
               THEN res = [kind |-> "ok", val |-> [data |-> wire.bytes]]
               ELSE IsErr(res)
          ELSE IsErr(res)
    /\ (/\ pc = "done"
        /\ op \in {"CID::from_data_ref", "CID::from_untagged_cbor",
                   "CID::from_cbor"}
        /\ res.kind \in {"ok", "some"})
       => Len(res.val.data) = 32

C6_Witness ==
    /\ pc = "done"
    /\ op = "CID::from_untagged_cbor"
    /\ wire.case = "ByteString"
    /\ Len(wire.bytes) = 33
    /\ IsErr(res)

\* C7: the untagged encoder writes Schnorr with empty auxiliary tag as the
\* bare byte-string of the payload, Schnorr with non-empty auxiliary tag as
\* [byte-string(payload), byte-string(auxiliary tag)], ECDSA as
\* [1, byte-string(payload)]; it never writes a 2-element sequence whose
\* second element is an empty byte-string.
C7_EncodeShapes ==
    (pc = "wire" /\ op = "Signature::untagged_cbor")
    => /\ (sent.val.variant = "Schnorr" /\ sent.val.tag = <<>>)
          => wire = [case |-> "ByteString", bytes |-> sent.val.sig]
       /\ (sent.val.variant = "Schnorr" /\ sent.val.tag # <<>>)
          => wire = [case |-> "Array", elements |->
                       << [case |-> "ByteString", bytes |-> sent.val.sig],
                          [case |-> "ByteString", bytes |-> sent.val.tag] >>]
       /\ sent.val.variant = "ECDSA"
          => wire = [case |-> "Array", elements |->
                       << [case |-> "Unsigned", n |-> 1],
                          [case |-> "ByteString", bytes |-> sent.val.sig] >>]
       /\ ~(/\ wire.case = "Array"
            /\ Len(wire.elements) = 2
            /\ wire.elements[2] = [case |-> "ByteString", bytes |-> <<>>])

C7_Witness ==
    /\ pc = "wire"
    /\ op = "Signature::untagged_cbor"
    /\ sent.val.variant = "Schnorr"
    /\ sent.val.tag = <<>>
    /\ wire.case = "ByteString"

\* the untagged shapes that are none of the accepted ones
IsBytes(c) == c.case = "ByteString"

RejectedShape(c) ==
    \/ c.case = "Array" /\ Len(c.elements) # 2
    \/ /\ c.case = "Array"
       /\ Len(c.elements) = 2
       /\ ~IsBytes(c.elements[1])
       /\ c.elements[1] # [case |-> "Unsigned", n |-> 1]
    \/ /\ c.case = "Array"
       /\ Len(c.elements) = 2
       /\ ~IsBytes(c.elements[2])
    \/ c.case \in {"Unsigned", "Text"}
    \/ c.case = "Tagged" /\ (~ssh \/ c.tag # TAG_SSH_TEXT_SIGNATURE)

\* C8: on every untagged value that is none of the accepted shapes (a
\* sequence of arity other than 2, a pair whose first element is neither a
\* byte-string nor the unsigned 1, a pair whose second element is no
\* byte-string, an integer, a text, a nested tagged value when the build
\* lacks the external format or the tag is another one) the untagged decoder
\* returns the error "Invalid signature format": no Signature, no panic.
C8_RejectedShapes ==
    (/\ pc = "done"
     /\ op = "Signature::from_untagged_cbor"
     /\ RejectedShape(wire))
    => res = InvalidSignatureFormat

\* three elements, the first two of which would make an ECDSA pair
C8_Witness ==
    /\ pc = "done"
    /\ op = "Signature::from_untagged_cbor"
    /\ wire.case = "Array"
    /\ Len(wire.elements) = 3
    /\ wire.elements[1] = [case |-> "Unsigned", n |-> 1]
    /\ IsBytes(wire.elements[2])
    /\ Len(wire.elements[2].bytes) = ECDSA_SIGNATURE_SIZE
    /\ res = InvalidSignatureFormat

\* C9: the untagged decoder turns a pair [b0, b1] of byte-strings into
\* Schnorr with payload b0 and auxiliary tag b1 exactly when b0 has the
\* Schnorr size, for every length of b1 including 0; never into ECDSA; into
\* an error when b0 has another length.
C9_SchnorrPair ==
    (/\ pc = "done"
     /\ op = "Signature::from_untagged_cbor"
     /\ wire.case = "Array"
     /\ Len(wire.elements) = 2
     /\ IsBytes(wire.elements[1])
     /\ IsBytes(wire.elements[2]))
    => IF Len(wire.elements[1].bytes) = SCHNORR_SIGNATURE_SIZE
       THEN res = [kind |-> "ok",
                   val |-> [variant |-> "Schnorr",
                            sig |-> wire.elements[1].bytes,
                            tag |-> wire.elements[2].bytes]]
       ELSE IsErr(res)

C9_Witness ==
    /\ pc = "done"
    /\ op = "Signature::from_untagged_cbor"
    /\ wire.case = "Array"
    /\ Len(wire.elements) = 2
    /\ IsBytes(wire.elements[1])
    /\ IsBytes(wire.elements[2])
    /\ Len(wire.elements[1].bytes) = SCHNORR_SIGNATURE_SIZE
    /\ Len(wire.elements[2].bytes) = SCHNORR_SIGNATURE_SIZE
    /\ res.kind = "ok"
    /\ res.val.variant = "Schnorr"

\* a pair of byte-strings whose second one is empty
IsEmptyTagPair(c) ==
    /\ c.case = "Array"
    /\ Len(c.elements) = 2
    /\ IsBytes(c.elements[1])
    /\ c.elements[2] = [case |-> "ByteString", bytes |-> <<>>]

====
